---- MODULE Spec2Model ----
(***************************************************************************)
(* State-machine model of the rebel-stream relation extractor:             *)
(*   - the streaming batch pipeline of src/src/streaming_extractor.py      *)
(*     (process_stream coroutines on one event loop, the background        *)
(*     worker thread _process_queue, the two queues and the stop event);   *)
(*   - the triplet parser extract_triplets_typed and the segmenter         *)
(*     segment_document of src/src/base_extractor.py, over strings         *)
(*     modelled as sequences of one-character strings.                     *)
(***************************************************************************)
EXTENDS Integers, Sequences, FiniteSets, TLC

(***************************************************************************)
(* Bounds of the model.                                                    *)
(***************************************************************************)
NumCalls == 2      \* process_stream invocations on the one pipeline instance
MaxDocs == 2       \* documents over all the input streams together
MaxSeg == 2        \* segments the Segmenter returns for one document
QueueSize == 1     \* queue_size: maxsize of input_queue
BatchSize == 2     \* batch_size, as the test fixture sets it
MaxTokens == 6     \* whitespace-separated words of an enumerated decoder output
MaxWords == 4      \* words of a text given to segment_document
MaxWordTokens == 3 \* tokens the tokenizer gives one word
SafeLength == 2    \* safe_length: the token budget of a segment
MaxSentinels == 2  \* sentinel tokens inserted into a decoder output

Calls == 1..NumCalls

(***************************************************************************)
(* Pipeline state.                                                         *)
(***************************************************************************)
VARIABLES
    input_queue,        \* Queue(maxsize=queue_size) of WorkItems
    output_queue,       \* Queue() of SegmentResults
    stop_event,         \* Event: TRUE when set
    processing_thread,  \* 0 for None, else the thread object (named by the call that created it)
    worker,             \* per thread object: position in _process_queue, batch, items processed
    running,            \* the coroutine that holds the event-loop thread, 0 when it is free
    stream,             \* per call: the documents its document_stream delivers
    pc,                 \* per call: position in process_stream
    pos,                \* per call: documents taken from document_stream
    nput,               \* per call: segments of the current document put on input_queue
    segments_processed, \* per call: local of the correlation loop
    doc_results,        \* per call: local of the correlation loop
    exc,                \* per call: "none", or the exception that left the try block
    yielded,            \* per call: the DocumentResults yielded so far
    taken,              \* per call: the results dequeued for the current document, and whether each was counted
    put_log,            \* per call: segment numbers put for the current document, in order
    enqueued,           \* per doc_id: WorkItems put on input_queue
    dequeued,           \* per doc_id: WorkItems the worker has taken from input_queue
    produced,           \* per doc_id: SegmentResults the worker has put on output_queue
    lost                \* doc_ids in flight of which a result was dequeued by another document's correlator

pvars == <<input_queue, output_queue, stop_event, processing_thread, worker,
           running, stream, pc, pos, nput, segments_processed, doc_results,
           exc, yielded, taken, put_log, enqueued, dequeued, produced, lost>>

gvars == <<enqueued, dequeued, produced, lost>>

(***************************************************************************)
(* State of one call of extract_triplets_typed.                            *)
(***************************************************************************)
VARIABLES
    ptext,      \* the argument text
    ptokens,    \* the tokens the for loop has still to visit
    parse,      \* the locals current, subject, relation, object_, object_type, subject_type, triplets
    ppc,        \* "idle" (not called), "call", "scan" (in the for loop), "done" (returned)
    presult,    \* the returned list
    pdropped,   \* the flush points at which a candidate with an empty field was not emitted
    pentered,   \* the number of times current has been set to 'o' (line 246)
    pmarkers    \* the number of tokens that have passed the test of line 216

qvars == <<ptext, ptokens, parse, ppc, presult, pdropped, pentered, pmarkers>>

(***************************************************************************)
(* State of one call of segment_document.                                  *)
(***************************************************************************)
VARIABLES
    sentences,        \* sent_tokenize(text): the sentences, each a string
    wtokens,          \* the tokenizer: tokens of the i-th word of the text
    spc,              \* "idle" (not called), "sent" (outer loop), "word" (inner loop), "done"
    si,               \* sentences the outer loop has visited
    words,            \* the words the inner loop has still to visit
    segments,         \* the local segments
    current_segment,  \* the local current_segment
    current_length,   \* the local current_length
    temp_segment,     \* the local temp_segment
    temp_length,      \* the local temp_length
    sresults          \* what process_segment has returned for the first segments of the list

svars == <<sentences, wtokens, spc, si, words, segments, current_segment,
           current_length, temp_segment, temp_length, sresults>>

vars == <<pvars, qvars, svars>>

(***************************************************************************)
(* Documents.  A document's text is None, empty after strip(), or has      *)
(* content that segment_document splits into nseg >= 1 segments.  Document *)
(* ids are unique: the p-th document of call c has id DocId(c, p).         *)
(***************************************************************************)
Contents ==
    {[text |-> "ok", nseg |-> n] : n \in 1..MaxSeg}
    \cup {[text |-> "empty", nseg |-> 0], [text |-> "none", nseg |-> 0]}

DocId(c, p) == (c - 1) * (MaxDocs + 1) + p

DocIds == {DocId(c, p) : c \in Calls, p \in 1..MaxDocs}

RECURSIVE TotalLen(_, _)
TotalLen(s, n) == IF n = 0 THEN 0 ELSE Len(s[n]) + TotalLen(s, n - 1)

Streams ==
    {s \in [Calls -> UNION {[1..n -> Contents] : n \in 0..MaxDocs}] :
        TotalLen(s, NumCalls) <= MaxDocs}

Doc(c) == stream[c][pos[c]]
CurId(c) == DocId(c, pos[c])

NewWorker == [pc |-> "unstarted", batch |-> <<>>, i |-> 0]

Alive(t) == t # 0 /\ worker[t].pc \notin {"unstarted", "done"}

PipelineInit(streams) ==
    /\ input_queue = <<>>
    /\ output_queue = <<>>
    /\ stop_event = FALSE
    /\ processing_thread = 0
    /\ worker = [t \in Calls |-> NewWorker]
    /\ running = 0
    /\ stream \in streams
    /\ pc = [c \in Calls |-> "idle"]
    /\ pos = [c \in Calls |-> 0]
    /\ nput = [c \in Calls |-> 0]
    /\ segments_processed = [c \in Calls |-> 0]
    /\ doc_results = [c \in Calls |-> <<>>]
    /\ exc = [c \in Calls |-> "none"]
    /\ yielded = [c \in Calls |-> <<>>]
    /\ taken = [c \in Calls |-> <<>>]
    /\ put_log = [c \in Calls |-> <<>>]
    /\ enqueued = [d \in DocIds |-> 0]
    /\ dequeued = [d \in DocIds |-> 0]
    /\ produced = [d \in DocIds |-> 0]
    /\ lost = {}

(***************************************************************************)
(* process_stream, lines 33-36: start the worker unless one is alive.      *)
(* The body runs to the first await (the async for) without suspending.    *)
(***************************************************************************)
(* The is_alive test of line 33 left out: every call starts a thread. *)
NeedsWorkerAlways == TRUE

NeedsWorker == processing_thread = 0 \/ ~Alive(processing_thread)

Start(c) ==
    /\ pc[c] = "idle"
    /\ running = 0
    /\ IF NeedsWorker
          THEN /\ stop_event' = FALSE
               /\ processing_thread' = c
               /\ worker' = [worker EXCEPT ![c] = [pc |-> "loop", batch |-> <<>>, i |-> 0]]
          ELSE UNCHANGED <<stop_event, processing_thread, worker>>
    /\ pc' = [pc EXCEPT ![c] = "next"]
    /\ UNCHANGED <<input_queue, output_queue, running, stream, pos, nput,
                   segments_processed, doc_results, exc, yielded, taken, put_log>>
    /\ UNCHANGED qvars
    /\ UNCHANGED svars
    /\ UNCHANGED gvars

(***************************************************************************)
(* The finally block, lines 82-85: stop_event.set(), then the blocking     *)
(* join (pc "join"), which holds the event-loop thread.                    *)
(***************************************************************************)
(* stop_event.set() of line 83 left out. *)
FinallyNoStop(c, e) ==
    /\ stop_event' = stop_event
    /\ exc' = [exc EXCEPT ![c] = e]
    /\ pc' = [pc EXCEPT ![c] = "join"]
    /\ running' = c

Finally(c, e) ==
    /\ stop_event' = TRUE
    /\ exc' = [exc EXCEPT ![c] = e]
    /\ pc' = [pc EXCEPT ![c] = "join"]
    /\ running' = c

(* async for, line 39: the stream is exhausted. *)
FetchEnd(c) ==
    /\ pc[c] = "next"
    /\ running = 0
    /\ pos[c] = Len(stream[c])
    /\ Finally(c, "none")
    /\ UNCHANGED <<input_queue, output_queue, processing_thread, worker, stream,
                   pos, nput, segments_processed, doc_results, yielded, taken, put_log>>
    /\ UNCHANGED qvars
    /\ UNCHANGED svars
    /\ UNCHANGED gvars

(* lines 39-41 and 79-81: document.get('text', '') is None, .strip() raises. *)
FetchInvalid(c) ==
    /\ pc[c] = "next"
    /\ running = 0
    /\ pos[c] < Len(stream[c])
    /\ stream[c][pos[c] + 1].text = "none"
    /\ pos' = [pos EXCEPT ![c] = @ + 1]
    /\ Finally(c, "error")
    /\ UNCHANGED <<input_queue, output_queue, processing_thread, worker, stream,
                   nput, segments_processed, doc_results, yielded, taken, put_log>>
    /\ UNCHANGED qvars
    /\ UNCHANGED svars
    /\ UNCHANGED gvars

(* The continue of line 45 replaced by a raise: an empty text ends the stream. *)
FetchEmptyAborts(c) ==
    /\ pc[c] = "next"
    /\ running = 0
    /\ pos[c] < Len(stream[c])
    /\ stream[c][pos[c] + 1].text = "empty"
    /\ pos' = [pos EXCEPT ![c] = @ + 1]
    /\ Finally(c, "error")
    /\ UNCHANGED <<input_queue, output_queue, processing_thread, worker, stream,
                   nput, segments_processed, doc_results, yielded, taken, put_log>>
    /\ UNCHANGED qvars
    /\ UNCHANGED svars
    /\ UNCHANGED gvars

(* lines 39-45: empty text, continue. *)
FetchEmpty(c) ==
    /\ pc[c] = "next"
    /\ running = 0
    /\ pos[c] < Len(stream[c])
    /\ stream[c][pos[c] + 1].text = "empty"
    /\ pos' = [pos EXCEPT ![c] = @ + 1]
    /\ UNCHANGED <<input_queue, output_queue, stop_event, processing_thread, worker,
                   running, stream, pc, nput, segments_processed, doc_results,
                   exc, yielded, taken, put_log>>
    /\ UNCHANGED qvars
    /\ UNCHANGED svars
    /\ UNCHANGED gvars

(* lines 39-48: a document with text; segments = segment_document(text). *)
FetchDoc(c) ==
    /\ pc[c] = "next"
    /\ running = 0
    /\ pos[c] < Len(stream[c])
    /\ stream[c][pos[c] + 1].text = "ok"
    /\ pos' = [pos EXCEPT ![c] = @ + 1]
    /\ pc' = [pc EXCEPT ![c] = "put"]
    /\ running' = c
    /\ nput' = [nput EXCEPT ![c] = 0]
    /\ put_log' = [put_log EXCEPT ![c] = <<>>]
    /\ UNCHANGED <<input_queue, output_queue, stop_event, processing_thread, worker,
                   stream, segments_processed, doc_results, exc, yielded, taken>>
    /\ UNCHANGED qvars
    /\ UNCHANGED svars
    /\ UNCHANGED gvars

(***************************************************************************)
(* lines 50-58: input_queue.put of the next segment, blocking while the    *)
(* queue is full; after the last one the correlation loop's locals are set.*)
(***************************************************************************)
(* put that never blocks, as on a Queue() without maxsize. *)
CanPutAlways == TRUE

CanPut == Len(input_queue) < QueueSize

NextSegment(c) == nput[c] + 1

Put(c) ==
    /\ pc[c] = "put"
    /\ running = c
    /\ CanPut
    /\ input_queue' = Append(input_queue, [doc_id |-> CurId(c), seg |-> NextSegment(c)])
    /\ put_log' = [put_log EXCEPT ![c] = Append(@, NextSegment(c))]
    /\ enqueued' = [enqueued EXCEPT ![CurId(c)] = @ + 1]
    /\ UNCHANGED <<dequeued, produced, lost>>
    /\ nput' = [nput EXCEPT ![c] = @ + 1]
    /\ IF nput[c] + 1 = Doc(c).nseg
          THEN /\ pc' = [pc EXCEPT ![c] = "corr"]
               /\ segments_processed' = [segments_processed EXCEPT ![c] = 0]
               /\ doc_results' = [doc_results EXCEPT ![c] = <<>>]
               /\ taken' = [taken EXCEPT ![c] = <<>>]
          ELSE UNCHANGED <<pc, segments_processed, doc_results, taken>>
    /\ UNCHANGED <<output_queue, stop_event, processing_thread, worker, running,
                   stream, pos, exc, yielded>>
    /\ UNCHANGED qvars
    /\ UNCHANGED svars

(***************************************************************************)
(* lines 60-77 with _get_result, lines 121-129.  get_nowait succeeds       *)
(* either at once (pc "corr") or after a sleep (pc "sleep", the coroutine  *)
(* is resumed): the result is counted when its doc_id is the current       *)
(* document's, and otherwise falls out of the loop body unused.  A poll    *)
(* that finds the queue empty after the sleep, the return None of line 129 *)
(* included, changes nothing and the loop polls again.  With the last      *)
(* result the DocumentResult is built and yielded.                         *)
(***************************************************************************)
(* The doc_id comparison of line 62 left out. *)
BelongsAny(r, c) == TRUE

Belongs(r, c) == r.doc_id = CurId(c)

(* A document whose segments are being put or whose results are awaited. *)
Submitting(c) == pc[c] \in {"put", "corr", "sleep"}

InFlight(d) == \E c \in Calls : Submitting(c) /\ CurId(c) = d

GetResult(c) ==
    /\ \/ pc[c] = "corr" /\ running = c
       \/ pc[c] = "sleep" /\ running = 0
    /\ output_queue # <<>>
    /\ LET r == Head(output_queue) IN
       /\ output_queue' = Tail(output_queue)
       /\ IF Belongs(r, c)
             THEN /\ taken' = [taken EXCEPT ![c] = Append(@, [doc_id |-> r.doc_id, counted |-> TRUE])]
                  /\ UNCHANGED lost
                  /\ IF segments_processed[c] + 1 < Doc(c).nseg
                        THEN /\ doc_results' = [doc_results EXCEPT ![c] = @ \o r.triplets]
                             /\ segments_processed' = [segments_processed EXCEPT ![c] = @ + 1]
                             /\ pc' = [pc EXCEPT ![c] = "corr"]
                             /\ running' = c
                             /\ UNCHANGED yielded
                        ELSE /\ yielded' = [yielded EXCEPT ![c] = Append(@,
                                    [doc_id |-> CurId(c),
                                     triplets |-> doc_results[c] \o r.triplets,
                                     num_segments |-> Doc(c).nseg,
                                     taken |-> Append(taken[c], [doc_id |-> r.doc_id, counted |-> TRUE])])]
                             /\ doc_results' = [doc_results EXCEPT ![c] = <<>>]
                             /\ segments_processed' = [segments_processed EXCEPT ![c] = 0]
                             /\ pc' = [pc EXCEPT ![c] = "next"]
                             /\ running' = 0
             ELSE /\ pc' = [pc EXCEPT ![c] = "corr"]
                  /\ running' = c
                  /\ taken' = [taken EXCEPT ![c] = Append(@, [doc_id |-> r.doc_id, counted |-> FALSE])]
                  /\ lost' = IF InFlight(r.doc_id) THEN lost \cup {r.doc_id} ELSE lost
                  /\ UNCHANGED <<doc_results, segments_processed, yielded>>
    /\ UNCHANGED <<input_queue, stop_event, processing_thread, worker, stream,
                   pos, nput, exc, put_log, enqueued, dequeued, produced>>
    /\ UNCHANGED qvars
    /\ UNCHANGED svars

(* A poll that finds no result taken as the end of the document: the loop
   of line 60 is left without the yield and the next document is fetched. *)
SleepGivesUp(c) ==
    /\ pc[c] = "corr"
    /\ running = c
    /\ output_queue = <<>>
    /\ pc' = [pc EXCEPT ![c] = "next"]
    /\ running' = 0
    /\ UNCHANGED <<input_queue, output_queue, stop_event, processing_thread, worker,
                   stream, pos, nput, segments_processed, doc_results, exc,
                   yielded, taken, put_log>>
    /\ UNCHANGED qvars
    /\ UNCHANGED svars
    /\ UNCHANGED gvars

(* lines 124-127: get_nowait raises Empty, the coroutine awaits asyncio.sleep. *)
Sleep(c) ==
    /\ pc[c] = "corr"
    /\ running = c
    /\ output_queue = <<>>
    /\ pc' = [pc EXCEPT ![c] = "sleep"]
    /\ running' = 0
    /\ UNCHANGED <<input_queue, output_queue, stop_event, processing_thread, worker,
                   stream, pos, nput, segments_processed, doc_results, exc,
                   yielded, taken, put_log>>
    /\ UNCHANGED qvars
    /\ UNCHANGED svars
    /\ UNCHANGED gvars

(***************************************************************************)
(* The consuming task is cancelled while process_stream awaits the sleep   *)
(* of line 127: CancelledError passes the except clause of line 79 and the *)
(* finally block runs.                                                     *)
(***************************************************************************)
Cancel(c) ==
    /\ pc[c] = "sleep"
    /\ running = 0
    /\ Finally(c, "cancel")
    /\ UNCHANGED <<input_queue, output_queue, processing_thread, worker, stream,
                   pos, nput, segments_processed, doc_results, yielded, taken, put_log>>
    /\ UNCHANGED qvars
    /\ UNCHANGED svars
    /\ UNCHANGED gvars

(* lines 84-85: join returns once the thread has terminated. *)
Join(c) ==
    /\ pc[c] = "join"
    /\ running = c
    /\ ~Alive(processing_thread)
    /\ pc' = [pc EXCEPT ![c] = "done"]
    /\ running' = 0
    /\ UNCHANGED <<input_queue, output_queue, stop_event, processing_thread, worker,
                   stream, pos, nput, segments_processed, doc_results, exc,
                   yielded, taken, put_log>>
    /\ UNCHANGED qvars
    /\ UNCHANGED svars
    /\ UNCHANGED gvars

(***************************************************************************)
(* _process_queue, the worker thread.                                      *)
(***************************************************************************)
(* line 89: the while condition; lines 90-91 on entry. *)
WLoop(t) ==
    /\ worker[t].pc = "loop"
    /\ worker' = [worker EXCEPT ![t] =
                    IF ~stop_event \/ input_queue # <<>>
                       THEN [pc |-> "fill", batch |-> <<>>, i |-> 0]
                       ELSE [pc |-> "done", batch |-> <<>>, i |-> 0]]
    /\ UNCHANGED <<input_queue, output_queue, stop_event, processing_thread,
                   running, stream, pc, pos, nput, segments_processed,
                   doc_results, exc, yielded, taken, put_log>>
    /\ UNCHANGED qvars
    /\ UNCHANGED svars
    /\ UNCHANGED gvars

(* <= for < at line 93: the inner loop takes one item more. *)
BatchFullOffByOne(b) == Len(b) > BatchSize

(* The comparison of line 93 inverted: the inner loop never takes an item. *)
BatchFullInverted(b) == Len(b) < BatchSize

(* lines 93-99: one more item by get_nowait, or the end of the inner loop. *)
BatchFull(b) == Len(b) >= BatchSize

WFill(t) ==
    /\ worker[t].pc = "fill"
    /\ IF ~BatchFull(worker[t].batch) /\ input_queue # <<>>
          THEN /\ worker' = [worker EXCEPT ![t].batch = Append(@, Head(input_queue))]
               /\ input_queue' = Tail(input_queue)
               /\ dequeued' = [dequeued EXCEPT ![Head(input_queue).doc_id] = @ + 1]
          ELSE /\ worker' = [worker EXCEPT ![t].pc =
                                IF worker[t].batch = <<>> THEN "check" ELSE "proc"]
               /\ UNCHANGED <<input_queue, dequeued>>
    /\ UNCHANGED <<enqueued, produced, lost>>
    /\ UNCHANGED <<output_queue, stop_event, processing_thread, running, stream,
                   pc, pos, nput, segments_processed, doc_results, exc,
                   yielded, taken, put_log>>
    /\ UNCHANGED qvars
    /\ UNCHANGED svars

(* lines 101-104: an empty batch: break when stop is set, else continue. *)
WCheck(t) ==
    /\ worker[t].pc = "check"
    /\ worker' = [worker EXCEPT ![t].pc = IF stop_event THEN "done" ELSE "loop"]
    /\ UNCHANGED <<input_queue, output_queue, stop_event, processing_thread,
                   running, stream, pc, pos, nput, segments_processed,
                   doc_results, exc, yielded, taken, put_log>>
    /\ UNCHANGED qvars
    /\ UNCHANGED svars
    /\ UNCHANGED gvars

(***************************************************************************)
(* process_segment (base_extractor.py, lines 167-199) as the worker sees   *)
(* it: the parsed triplets when inference succeeds, and [] when anything   *)
(* in it raises (the except clause of lines 197-199).  A segment's         *)
(* triplets are abstracted to one triplet naming the segment.              *)
(***************************************************************************)
Outcomes == {"ok", "fail"}

(* An except clause that returns what it has instead of []. *)
process_segment_stale(item, outcome) == <<[doc_id |-> item.doc_id, seg |-> item.seg]>>

process_segment(item, outcome) ==
    IF outcome = "ok" THEN <<[doc_id |-> item.doc_id, seg |-> item.seg]>> ELSE <<>>

SegmentResult(item, outcome) ==
    [doc_id |-> item.doc_id, triplets |-> process_segment(item, outcome), ok |-> outcome = "ok"]

(* A worker that puts nothing for an item whose inference failed. *)
ResultsUnlessFailed(item, outcome) ==
    IF outcome = "fail" THEN <<>> ELSE <<SegmentResult(item, outcome)>>

(* lines 109-112: what the worker puts on output_queue for an item. *)
Results(item, outcome) == <<SegmentResult(item, outcome)>>

(* process_segment re-raising what it catches, as its test expects: a failed
   inference leaves process_segment as an exception. *)
EscapesOnFailure(outcome) == outcome = "fail"

(* base_extractor.py, lines 169 and 197-199: the whole body of process_segment
   is in a try whose except clause returns []: no outcome of the inference
   leaves process_segment as an exception. *)
Escapes(outcome) == FALSE

(* lines 113-119: the handler puts an empty result for every doc_id of batch_ids. *)
HandlerResults(batch) ==
    [k \in 1..Len(batch) |-> [doc_id |-> batch[k].doc_id, triplets |-> <<>>, ok |-> FALSE]]

CountFor(rs, d) == Cardinality({k \in 1..Len(rs) : rs[k].doc_id = d})

(* The batch taken from its end, as with batch.pop(): the items of a batch are
   processed last first. *)
WProcReversed(t) ==
    /\ worker[t].pc = "proc"
    /\ LET item == worker[t].batch[Len(worker[t].batch) - worker[t].i] IN
       \E outcome \in Outcomes :
          IF Escapes(outcome)
             THEN /\ output_queue' = output_queue \o HandlerResults(worker[t].batch)
                  /\ produced' = [d \in DocIds |->
                                    produced[d] + CountFor(worker[t].batch, d)]
                  /\ worker' = [worker EXCEPT ![t] = [pc |-> "loop", batch |-> <<>>, i |-> 0]]
             ELSE /\ output_queue' = output_queue \o Results(item, outcome)
                  /\ produced' = [produced EXCEPT ![item.doc_id] =
                                    @ + Len(Results(item, outcome))]
                  /\ worker' = [worker EXCEPT ![t] =
                                  IF worker[t].i + 1 = Len(worker[t].batch)
                                     THEN [pc |-> "loop", batch |-> <<>>, i |-> 0]
                                     ELSE [@ EXCEPT !.i = @ + 1]]
    /\ UNCHANGED <<enqueued, dequeued, lost>>
    /\ UNCHANGED <<input_queue, stop_event, processing_thread, running, stream,
                   pc, pos, nput, segments_processed, doc_results, exc,
                   yielded, taken, put_log>>
    /\ UNCHANGED qvars
    /\ UNCHANGED svars

(* lines 106-119: the next item of the batch is processed and its result put;
   an exception that escapes the processing ends the batch in the handler. *)
WProc(t) ==
    /\ worker[t].pc = "proc"
    /\ LET item == worker[t].batch[worker[t].i + 1] IN
       \E outcome \in Outcomes :
          IF Escapes(outcome)
             THEN /\ output_queue' = output_queue \o HandlerResults(worker[t].batch)
                  /\ produced' = [d \in DocIds |->
                                    produced[d] + CountFor(worker[t].batch, d)]
                  /\ worker' = [worker EXCEPT ![t] = [pc |-> "loop", batch |-> <<>>, i |-> 0]]
             ELSE /\ output_queue' = output_queue \o Results(item, outcome)
                  /\ produced' = [produced EXCEPT ![item.doc_id] =
                                    @ + Len(Results(item, outcome))]
                  /\ worker' = [worker EXCEPT ![t] =
                                  IF worker[t].i + 1 = Len(worker[t].batch)
                                     THEN [pc |-> "loop", batch |-> <<>>, i |-> 0]
                                     ELSE [@ EXCEPT !.i = @ + 1]]
    /\ UNCHANGED <<enqueued, dequeued, lost>>
    /\ UNCHANGED <<input_queue, stop_event, processing_thread, running, stream,
                   pc, pos, nput, segments_processed, doc_results, exc,
                   yielded, taken, put_log>>
    /\ UNCHANGED qvars
    /\ UNCHANGED svars

(***************************************************************************)
(* extract_triplets_typed (base_extractor.py, lines 201-269).  A Python    *)
(* string is a sequence of one-character strings; '' is <<>>.              *)
(***************************************************************************)
Str_triplet == <<"<", "t", "r", "i", "p", "l", "e", "t", ">">>
Str_relation == <<"<", "r", "e", "l", "a", "t", "i", "o", "n", ">">>
Str_s == <<"<", "s", ">">>
Str_pad == <<"<", "p", "a", "d", ">">>
Str_end_s == <<"<", "/", "s", ">">>
Str_tp_XX == <<"t", "p", "_", "X", "X">>
Str_en == <<"_", "_", "e", "n", "_", "_">>

IsSpace(ch) == ch \in {" ", "\t", "\n"}

(* str.strip() *)
RECURSIVE lstrip(_)
lstrip(s) == IF s # <<>> /\ IsSpace(Head(s)) THEN lstrip(Tail(s)) ELSE s

RECURSIVE rstrip(_)
rstrip(s) ==
    IF s # <<>> /\ IsSpace(s[Len(s)]) THEN rstrip(SubSeq(s, 1, Len(s) - 1)) ELSE s

strip(s) == rstrip(lstrip(s))

(* str.replace(old, ""): every non-overlapping occurrence, left to right. *)
RECURSIVE remove(_, _)
remove(s, old) ==
    IF Len(s) < Len(old) THEN s
    ELSE IF SubSeq(s, 1, Len(old)) = old
         THEN remove(SubSeq(s, Len(old) + 1, Len(s)), old)
         ELSE <<Head(s)>> \o remove(Tail(s), old)

(* str.split(): the maximal runs of non-whitespace characters. *)
RECURSIVE split_from(_, _)
split_from(s, word) ==
    IF s = <<>> THEN (IF word = <<>> THEN <<>> ELSE <<word>>)
    ELSE IF IsSpace(Head(s))
         THEN (IF word = <<>> THEN <<>> ELSE <<word>>) \o split_from(Tail(s), <<>>)
         ELSE split_from(Tail(s), Append(word, Head(s)))

split(s) == split_from(s, <<>>)

(* .replace("<pad>", "") left out of the chain of lines 212-213. *)
TokenizeKeepsPad(text) ==
    split(remove(remove(remove(remove(text, Str_s), Str_end_s), Str_tp_XX), Str_en))

(* lines 212-213 *)
Tokenize(text) ==
    split(remove(remove(remove(remove(remove(text, Str_s), Str_pad), Str_end_s),
                        Str_tp_XX), Str_en))

(* current initialised to 't' instead of 'x': the scan starts in the subject state. *)
ParseStartInSubject ==
    [current |-> "t", subject |-> <<>>, relation |-> <<>>, object_ |-> <<>>,
     object_type |-> <<>>, subject_type |-> <<>>, triplets |-> <<>>]

(* lines 208-209 *)
ParseStart ==
    [current |-> "x", subject |-> <<>>, relation |-> <<>>, object_ |-> <<>>,
     object_type |-> <<>>, subject_type |-> <<>>, triplets |-> <<>>]

(* the dict of lines 219-225, 234-240 and 258-264 *)
TripletOf(p) ==
    [head |-> strip(p.subject), head_type |-> p.subject_type,
     type |-> strip(p.relation), tail |-> strip(p.object_),
     tail_type |-> p.object_type]

(* The all(...) test of lines 226 and 241 left out. *)
AllValuesUnchecked(t) == TRUE

(* all(triplet.values()), lines 226 and 241 *)
AllValues(t) ==
    /\ t.head # <<>>
    /\ t.head_type # <<>>
    /\ t.type # <<>>
    /\ t.tail # <<>>
    /\ t.tail_type # <<>>

(* line 257 *)
AllAccumulated(p) ==
    /\ p.subject # <<>>
    /\ p.relation # <<>>
    /\ p.object_ # <<>>
    /\ p.object_type # <<>>
    /\ p.subject_type # <<>>

(* lines 218-227 and 233-242: the pending triplet is appended when complete. *)
Flushed(p) ==
    IF p.relation # <<>> /\ AllValues(TripletOf(p))
       THEN Append(p.triplets, TripletOf(p))
       ELSE p.triplets

IsTripletMarker(token) == token = Str_triplet \/ token = Str_relation

IsBracketed(token) == token[1] = "<" /\ token[Len(token)] = ">"

Inner(token) == SubSeq(token, 2, Len(token) - 1)

(* lines 216-229 *)
OnTripletMarker(p) ==
    [p EXCEPT !.current = "t", !.triplets = Flushed(p), !.relation = <<>>,
              !.subject = <<>>]

(* The flush at a bracketed marker also clearing subject, as the flush at the
   triplet-start marker does (line 229). *)
OnBracketDropsHead(p, token) ==
    IF p.current = "t" \/ p.current = "o"
       THEN [p EXCEPT !.current = "s", !.triplets = Flushed(p), !.object_ = <<>>,
                      !.subject_type = Inner(token), !.subject = <<>>]
       ELSE [p EXCEPT !.current = "o", !.object_type = Inner(token),
                      !.relation = <<>>]

(* The reset of object_ at line 243 left out. *)
OnBracketKeepsTail(p, token) ==
    IF p.current = "t" \/ p.current = "o"
       THEN [p EXCEPT !.current = "s", !.triplets = Flushed(p),
                      !.subject_type = Inner(token)]
       ELSE [p EXCEPT !.current = "o", !.object_type = Inner(token),
                      !.relation = <<>>]

(* lines 230-248 *)
OnBracket(p, token) ==
    IF p.current = "t" \/ p.current = "o"
       THEN [p EXCEPT !.current = "s", !.triplets = Flushed(p), !.object_ = <<>>,
                      !.subject_type = Inner(token)]
       ELSE [p EXCEPT !.current = "o", !.object_type = Inner(token),
                      !.relation = <<>>]

(* The accumulators of the states s and o exchanged. *)
OnOtherSwapped(p, token) ==
    IF p.current = "t" THEN [p EXCEPT !.subject = @ \o <<" ">> \o token]
    ELSE IF p.current = "s" THEN [p EXCEPT !.relation = @ \o <<" ">> \o token]
    ELSE IF p.current = "o" THEN [p EXCEPT !.object_ = @ \o <<" ">> \o token]
    ELSE p

(* lines 249-255 *)
OnOther(p, token) ==
    IF p.current = "t" THEN [p EXCEPT !.subject = @ \o <<" ">> \o token]
    ELSE IF p.current = "s" THEN [p EXCEPT !.object_ = @ \o <<" ">> \o token]
    ELSE IF p.current = "o" THEN [p EXCEPT !.relation = @ \o <<" ">> \o token]
    ELSE p

(* The except clause of lines 265-267 taken at the final flush: [] is returned. *)
FinishExcept(p) == <<>>

(* lines 257-264 and 269 *)
Finish(p) ==
    IF AllAccumulated(p) THEN Append(p.triplets, TripletOf(p)) ELSE p.triplets

(* A candidate (a pending relation) that a flush point does not emit. *)
Drops(p) == p.relation # <<>> /\ ~AllValues(TripletOf(p))

(***************************************************************************)
(* The decoder outputs the parser is run on: every text of at most         *)
(* MaxTokens words of Words joined by single spaces, and the examples.     *)
(***************************************************************************)
Words ==
    {Str_triplet, Str_relation, <<"<", "a", ">">>, <<"<", ">">>, <<"x">>, Str_s}

RECURSIVE JoinWords(_)
JoinWords(ws) ==
    IF ws = <<>> THEN <<>>
    ELSE IF Len(ws) = 1 THEN ws[1]
    ELSE ws[1] \o <<" ">> \o JoinWords(Tail(ws))

Str_Apple == <<"A", "p", "p", "l", "e">>
Str_org == <<"o", "r", "g">>
Str_headquartered_in ==
    <<"h", "e", "a", "d", "q", "u", "a", "r", "t", "e", "r", "e", "d", " ", "i", "n">>
Str_loc == <<"l", "o", "c">>
Str_Cupertino == <<"C", "u", "p", "e", "r", "t", "i", "n", "o">>

(* "<triplet> Apple <org> headquartered in <loc> Cupertino" *)
ExampleText ==
    Str_triplet \o <<" ">> \o Str_Apple \o <<" ", "<">> \o Str_org \o <<">", " ">>
    \o Str_headquartered_in \o <<" ", "<">> \o Str_loc \o <<">", " ">> \o Str_Cupertino

(* "<a> x <triplet> x <a> x <a> x <> <a> x <a>": one complete triplet, and
   an incomplete candidate at each of the three flush points. *)
DropsText ==
    JoinWords(<<
        <<"<", "a", ">">>, <<"x">>, Str_triplet, <<"x">>, <<"<", "a", ">">>, <<"x">>,
        <<"<", "a", ">">>, <<"x">>, <<"<", ">">>, <<"<", "a", ">">>, <<"x">>,
        <<"<", "a", ">">> >>)

(* "<triplet> x <a> x <a> x <a> x": the stream ends in the tail that follows
   the first relation. *)
TruncatedText ==
    JoinWords(<<
        Str_triplet, <<"x">>, <<"<", "a", ">">>, <<"x">>, <<"<", "a", ">">>, <<"x">>,
        <<"<", "a", ">">>, <<"x">> >>)

Tag(ch) == <<"<", ch, ">">>

(* "<triplet> H <a> T1 <b> R1 <c> T2 <d> R2": two triplets of one head. *)
SharedHeadText ==
    JoinWords(<<
        Str_triplet, <<"H">>, Tag("a"), <<"T", "1">>, Tag("b"), <<"R", "1">>,
        Tag("c"), <<"T", "2">>, Tag("d"), <<"R", "2">> >>)

Texts ==
    {JoinWords(ws) : ws \in UNION {[1..n -> Words] : n \in 0..MaxTokens}}
    \cup {ExampleText, DropsText, TruncatedText, SharedHeadText}

ParserIdle ==
    /\ ptext = <<>>
    /\ ptokens = <<>>
    /\ parse = ParseStart
    /\ ppc = "idle"
    /\ presult = <<>>
    /\ pdropped = {}
    /\ pentered = 0
    /\ pmarkers = 0

(* lines 203-213: the empty text returns [] at once. *)
PCall ==
    /\ ppc = "call"
    /\ IF ptext = <<>>
          THEN /\ ppc' = "done"
               /\ UNCHANGED ptokens
          ELSE /\ ppc' = "scan"
               /\ ptokens' = Tokenize(strip(ptext))
    /\ UNCHANGED <<ptext, parse, presult, pdropped, pentered, pmarkers>>
    /\ UNCHANGED pvars
    /\ UNCHANGED svars

(* lines 216-229 *)
PTripletMarker ==
    /\ ppc = "scan"
    /\ ptokens # <<>>
    /\ IsTripletMarker(Head(ptokens))
    /\ parse' = OnTripletMarker(parse)
    /\ pdropped' = IF Drops(parse) THEN pdropped \cup {"marker"} ELSE pdropped
    /\ ptokens' = Tail(ptokens)
    /\ pmarkers' = pmarkers + 1
    /\ UNCHANGED <<ptext, ppc, presult, pentered>>
    /\ UNCHANGED pvars
    /\ UNCHANGED svars

(* lines 230-248 *)
PBracket ==
    /\ ppc = "scan"
    /\ ptokens # <<>>
    /\ ~IsTripletMarker(Head(ptokens))
    /\ IsBracketed(Head(ptokens))
    /\ parse' = OnBracket(parse, Head(ptokens))
    /\ pdropped' = IF parse.current \in {"t", "o"} /\ Drops(parse)
                      THEN pdropped \cup {"bracket"} ELSE pdropped
    /\ pentered' = IF parse.current \in {"t", "o"} THEN pentered ELSE pentered + 1
    /\ ptokens' = Tail(ptokens)
    /\ UNCHANGED <<ptext, ppc, presult, pmarkers>>
    /\ UNCHANGED pvars
    /\ UNCHANGED svars

(* lines 249-255 *)
POther ==
    /\ ppc = "scan"
    /\ ptokens # <<>>
    /\ ~IsTripletMarker(Head(ptokens))
    /\ ~IsBracketed(Head(ptokens))
    /\ parse' = OnOther(parse, Head(ptokens))
    /\ ptokens' = Tail(ptokens)
    /\ UNCHANGED <<ptext, ppc, presult, pdropped, pentered, pmarkers>>
    /\ UNCHANGED pvars
    /\ UNCHANGED svars

(* lines 257-269 *)
PReturn ==
    /\ ppc = "scan"
    /\ ptokens = <<>>
    /\ presult' = Finish(parse)
    /\ pdropped' = IF parse.relation # <<>> /\ ~AllAccumulated(parse)
                      THEN pdropped \cup {"end"} ELSE pdropped
    /\ ppc' = "done"
    /\ UNCHANGED <<ptext, ptokens, parse, pentered, pmarkers>>
    /\ UNCHANGED pvars
    /\ UNCHANGED svars

ParseNext == PCall \/ PTripletMarker \/ PBracket \/ POther \/ PReturn

(***************************************************************************)
(* segment_document (base_extractor.py, lines 119-165).  The text arrives  *)
(* as the sentences sent_tokenize finds in it; the words of the text are   *)
(* numbered, the i-th is the string "w" followed by the digit i, and the   *)
(* tokenizer gives it wtokens[i] tokens.  get_token_length is additive     *)
(* over the words of its argument.                                         *)
(***************************************************************************)
Digits == <<"1", "2", "3", "4", "5", "6", "7", "8", "9">>

WordText(i) == <<"w", Digits[i]>>

WordIndex(word) == CHOOSE i \in 1..Len(wtokens) : WordText(i) = word

RECURSIVE SumTokens(_)
SumTokens(ws) ==
    IF ws = <<>> THEN 0 ELSE wtokens[WordIndex(Head(ws))] + SumTokens(Tail(ws))

(* lines 115-117 *)
get_token_length(text) == SumTokens(split(text))

RECURSIVE Concat(_)
Concat(list) == IF list = <<>> THEN <<>> ELSE Head(list) \o Concat(Tail(list))

(* ''.join(list): the separator forgotten. *)
joinNoSeparator(list) == Concat(list)

(* ' '.join(list) *)
join(list) == JoinWords(list)

(* The sentences of a text of n words that is cut after the words of cuts. *)
RECURSIVE SentencesFrom(_, _, _)
SentencesFrom(i, n, cuts) ==
    IF i > n THEN <<>>
    ELSE LET e == CHOOSE k \in i..n :
                     /\ k = n \/ k \in cuts
                     /\ \A j \in i..(k - 1) : j \notin cuts
         IN <<JoinWords([j \in 1..(e - i + 1) |-> WordText(i + j - 1)])>>
                \o SentencesFrom(e + 1, n, cuts)

SegmenterInputs ==
    UNION {{[sentences |-> SentencesFrom(1, n, cuts), wtokens |-> wt] :
                cuts \in SUBSET (1..(n - 1)), wt \in [1..n -> 1..MaxWordTokens]} :
           n \in 0..MaxWords}

SegmenterIdle ==
    /\ sentences = <<>>
    /\ wtokens = <<>>
    /\ spc = "idle"
    /\ si = 0
    /\ words = <<>>
    /\ segments = <<>>
    /\ current_segment = <<>>
    /\ current_length = 0
    /\ temp_segment = <<>>
    /\ temp_length = 0
    /\ sresults = <<>>

(* lines 131, 143, 151, 155 and 163: segments.append(' '.join(list)) when list is not empty. *)
Flush(segs, list) == IF list # <<>> THEN Append(segs, join(list)) ELSE segs

Sentence == sentences[si + 1]

(* line 129 *)
Oversized(n) == n > SafeLength

(* The budget test off by one: a segment may take one token more. *)
OverflowsOffByOne(length, n) == length + n > SafeLength + 1

(* The budget test with >= for >: a segment that would be exactly full is closed. *)
OverflowsAtBudget(length, n) == length + n >= SafeLength

(* lines 141 and 153 *)
Overflows(length, n) == length + n > SafeLength

(* Lines 130-133 left out: the open segment stays pending while the words of
   the sentence over the budget are emitted. *)
SSplitKeepsPending ==
    /\ spc = "sent"
    /\ si < Len(sentences)
    /\ Oversized(get_token_length(Sentence))
    /\ words' = split(Sentence)
    /\ temp_segment' = <<>>
    /\ temp_length' = 0
    /\ si' = si + 1
    /\ spc' = "word"
    /\ UNCHANGED <<sentences, wtokens, segments, current_segment, current_length, sresults>>
    /\ UNCHANGED pvars
    /\ UNCHANGED qvars

(* lines 126-137: a sentence over the budget: the open segment is closed and
   the sentence is split into words. *)
SSplit ==
    /\ spc = "sent"
    /\ si < Len(sentences)
    /\ Oversized(get_token_length(Sentence))
    /\ segments' = Flush(segments, current_segment)
    /\ current_segment' = <<>>
    /\ current_length' = 0
    /\ words' = split(Sentence)
    /\ temp_segment' = <<>>
    /\ temp_length' = 0
    /\ si' = si + 1
    /\ spc' = "word"
    /\ UNCHANGED <<sentences, wtokens, sresults>>
    /\ UNCHANGED pvars
    /\ UNCHANGED qvars

(* lines 139-148: one word of the sentence over the budget. *)
SWord ==
    /\ spc = "word"
    /\ words # <<>>
    /\ LET word == Head(words)
           word_tokens == get_token_length(word \o <<" ">>)
       IN IF Overflows(temp_length, word_tokens)
             THEN /\ segments' = Flush(segments, temp_segment)
                  /\ temp_segment' = <<word>>
                  /\ temp_length' = word_tokens
             ELSE /\ temp_segment' = Append(temp_segment, word)
                  /\ temp_length' = temp_length + word_tokens
                  /\ UNCHANGED segments
    /\ words' = Tail(words)
    /\ UNCHANGED <<sentences, wtokens, spc, si, current_segment, current_length, sresults>>
    /\ UNCHANGED pvars
    /\ UNCHANGED qvars

(* lines 150-151: the words are exhausted. *)
SWordsEnd ==
    /\ spc = "word"
    /\ words = <<>>
    /\ segments' = Flush(segments, temp_segment)
    /\ spc' = "sent"
    /\ UNCHANGED <<sentences, wtokens, si, words, current_segment, current_length,
                   temp_segment, temp_length, sresults>>
    /\ UNCHANGED pvars
    /\ UNCHANGED qvars

(* lines 153-157: the sentence does not fit the open segment. *)
SNewSegment ==
    /\ spc = "sent"
    /\ si < Len(sentences)
    /\ ~Oversized(get_token_length(Sentence))
    /\ Overflows(current_length, get_token_length(Sentence))
    /\ segments' = Flush(segments, current_segment)
    /\ current_segment' = <<Sentence>>
    /\ current_length' = get_token_length(Sentence)
    /\ si' = si + 1
    /\ UNCHANGED <<sentences, wtokens, spc, words, temp_segment, temp_length, sresults>>
    /\ UNCHANGED pvars
    /\ UNCHANGED qvars

(* lines 158-160: the sentence fits. *)
SAppend ==
    /\ spc = "sent"
    /\ si < Len(sentences)
    /\ ~Oversized(get_token_length(Sentence))
    /\ ~Overflows(current_length, get_token_length(Sentence))
    /\ current_segment' = Append(current_segment, Sentence)
    /\ current_length' = current_length + get_token_length(Sentence)
    /\ si' = si + 1
    /\ UNCHANGED <<sentences, wtokens, spc, words, segments, temp_segment, temp_length, sresults>>
    /\ UNCHANGED pvars
    /\ UNCHANGED qvars

(* lines 162-165 *)
SReturn ==
    /\ spc = "sent"
    /\ si = Len(sentences)
    /\ segments' = Flush(segments, current_segment)
    /\ spc' = "done"
    /\ UNCHANGED <<sentences, wtokens, si, words, current_segment, current_length,
                   temp_segment, temp_length, sresults>>
    /\ UNCHANGED pvars
    /\ UNCHANGED qvars

(* The guard of process_segment left out: every segment goes to the model. *)
TooLongNever(segment) == FALSE

(* base_extractor.py, line 170 *)
TooLong(segment) == get_token_length(segment) > SafeLength

(* process_segment, lines 167-199, on the text of a segment: [] without a
   call of the model for a segment over the budget, else what the inference
   gives (one triplet naming the segment, or [] when it fails). *)
ProcessSegmentText(segment, outcome) ==
    IF TooLong(segment)
       THEN [triplets |-> <<>>, invoked |-> FALSE]
       ELSE [triplets |-> IF outcome = "ok" THEN <<segment>> ELSE <<>>, invoked |-> TRUE]

(* streaming_extractor.py, lines 107-108: the segments of the document are
   given to process_segment in order, one call for each. *)
SProcess ==
    /\ spc = "done"
    /\ Len(sresults) < Len(segments)
    /\ \E outcome \in Outcomes :
          sresults' = Append(sresults, ProcessSegmentText(segments[Len(sresults) + 1], outcome))
    /\ UNCHANGED <<sentences, wtokens, spc, si, words, segments, current_segment,
                   current_length, temp_segment, temp_length>>
    /\ UNCHANGED pvars
    /\ UNCHANGED qvars

SegmentNext == SSplit \/ SWord \/ SWordsEnd \/ SNewSegment \/ SAppend \/ SReturn

ProcessNext == SegmentNext \/ SProcess

CallStep(c) ==
    \/ FetchEnd(c) \/ FetchInvalid(c) \/ FetchEmpty(c) \/ FetchDoc(c)
    \/ Put(c) \/ GetResult(c) \/ Sleep(c) \/ Join(c)

WorkerStep(t) == WLoop(t) \/ WFill(t) \/ WCheck(t) \/ WProc(t)

Next ==
    \/ \E c \in Calls : Start(c)
    \/ \E c \in Calls : CallStep(c)
    \/ \E c \in Calls : Cancel(c)
    \/ \E t \in Calls : WorkerStep(t)

(***************************************************************************)
(* The worker thread is scheduled fairly, and the event loop resumes a     *)
(* coroutine that is ready.                                                *)
(***************************************************************************)
Fairness ==
    /\ \A t \in Calls : WF_vars(WorkerStep(t))
    /\ \A c \in Calls : WF_vars(CallStep(c))

Init == PipelineInit(Streams) /\ ParserIdle /\ SegmenterIdle

Spec == Init /\ [][Next]_vars /\ Fairness

(***************************************************************************)
(* One process_stream call at a time on the instance: a call is made only  *)
(* when every earlier one has returned.                                    *)
(***************************************************************************)
StartSeq(c) ==
    /\ \A d \in Calls \ {c} : pc[d] \in {"idle", "done"}
    /\ Start(c)

NextSeq ==
    \/ \E c \in Calls : StartSeq(c)
    \/ \E c \in Calls : CallStep(c)
    \/ \E c \in Calls : Cancel(c)
    \/ \E t \in Calls : WorkerStep(t)

SpecSeq == Init /\ [][NextSeq]_vars /\ Fairness

(***************************************************************************)
(* The parser alone, on every text of Texts; the pipeline is at rest.      *)
(***************************************************************************)
NoStreams == {[c \in Calls |-> <<>>]}

InitParse ==
    /\ PipelineInit(NoStreams)
    /\ ptext \in Texts
    /\ ptokens = <<>>
    /\ parse = ParseStart
    /\ ppc = "call"
    /\ presult = <<>>
    /\ pdropped = {}
    /\ pentered = 0
    /\ pmarkers = 0
    /\ SegmenterIdle

SpecParse == InitParse /\ [][ParseNext]_vars

(***************************************************************************)
(* The parser on decoder outputs that carry sentinel tokens: the example   *)
(* texts with at most MaxSentinels tokens of Sentinels inserted, each as a *)
(* word of its own, at any positions.                                      *)
(***************************************************************************)
Sentinels == {Str_s, Str_pad, Str_end_s, Str_tp_XX, Str_en}

InsertOne(ws) ==
    {SubSeq(ws, 1, i) \o <<t>> \o SubSeq(ws, i + 1, Len(ws)) :
        i \in 0..Len(ws), t \in Sentinels}

RECURSIVE InsertUpTo(_, _)
InsertUpTo(streams, k) ==
    IF k = 0 THEN streams
    ELSE streams \cup InsertUpTo(UNION {InsertOne(ws) : ws \in streams}, k - 1)

SentinelBases == {split(ExampleText), split(TruncatedText), <<>>}

InitSentinel ==
    /\ PipelineInit(NoStreams)
    /\ \E ws \in InsertUpTo(SentinelBases, MaxSentinels) : ptext = JoinWords(ws)
    /\ ptokens = <<>>
    /\ parse = ParseStart
    /\ ppc = "call"
    /\ presult = <<>>
    /\ pdropped = {}
    /\ pentered = 0
    /\ pmarkers = 0
    /\ SegmenterIdle

SpecSentinel == InitSentinel /\ [][ParseNext]_vars

(***************************************************************************)
(* The segmenter alone, on every text of at most MaxWords words; the       *)
(* pipeline and the parser are at rest.                                    *)
(***************************************************************************)
InitSegment ==
    /\ PipelineInit(NoStreams)
    /\ ParserIdle
    /\ \E in \in SegmenterInputs : sentences = in.sentences /\ wtokens = in.wtokens
    /\ spc = "sent"
    /\ si = 0
    /\ words = <<>>
    /\ segments = <<>>
    /\ current_segment = <<>>
    /\ current_length = 0
    /\ temp_segment = <<>>
    /\ temp_length = 0
    /\ sresults = <<>>

SpecSegment == InitSegment /\ [][SegmentNext]_vars

(***************************************************************************)
(* The path of one document: segment_document, then process_segment on     *)
(* each of the segments it returned.                                       *)
(***************************************************************************)
SpecProcess == InitSegment /\ [][ProcessNext]_vars

(***************************************************************************)
(* Properties of the pipeline.                                             *)
(***************************************************************************)
IsCounted(e) == e.counted

Counted(tk) == SelectSeq(tk, IsCounted)

NonEmptyDocs(c) == {p \in 1..Len(stream[c]) : stream[c][p].text = "ok"}

(* WorkItems of document d that a worker holds in its batch and has not processed. *)
Pending(d) ==
    Cardinality({tk \in Calls \X (1..BatchSize) :
                    /\ tk[2] > worker[tk[1]].i
                    /\ tk[2] <= Len(worker[tk[1]].batch)
                    /\ worker[tk[1]].batch[tk[2]].doc_id = d})

(* C1: a DocumentResult is yielded only after the correlator has counted
   exactly N results, N the number of segments of the document, and every
   result it counts carries the document's own doc_id, whatever else it
   dequeues in between. *)
C1_CompletionCount ==
    /\ \A c \in Calls : \A j \in 1..Len(yielded[c]) :
          LET r == yielded[c][j] IN
          /\ \E p \in NonEmptyDocs(c) :
                r.doc_id = DocId(c, p) /\ r.num_segments = stream[c][p].nseg
          /\ Len(Counted(r.taken)) = r.num_segments
          /\ \A i \in 1..Len(r.taken) : r.taken[i].counted => r.taken[i].doc_id = r.doc_id
    /\ \A c \in Calls : pc[c] \in {"corr", "sleep"} =>
          /\ Len(Counted(taken[c])) = segments_processed[c]
          /\ segments_processed[c] < Doc(c).nseg
          /\ \A i \in 1..Len(taken[c]) : taken[c][i].counted => taken[c][i].doc_id = CurId(c)

(* A document of several segments was yielded although its correlator had
   dequeued a result of another document in between. *)
C1_Witness ==
    \E c \in Calls : \E j \in 1..Len(yielded[c]) :
        /\ yielded[c][j].num_segments >= 2
        /\ \E i \in 1..Len(yielded[c][j].taken) : ~yielded[c][j].taken[i].counted

(* C2: when process_stream has finished without being cancelled, it has
   yielded exactly one DocumentResult for every document of its stream with
   non-empty text, and none for any other. *)
C2_ExactlyOnce ==
    \A c \in Calls : (pc[c] = "done" /\ exc[c] # "cancel") =>
        /\ Len(yielded[c]) = Cardinality(NonEmptyDocs(c))
        /\ \A p \in NonEmptyDocs(c) :
              \E j \in 1..Len(yielded[c]) : yielded[c][j].doc_id = DocId(c, p)

(* C3: a submitted document of which no segment has succeeded leads to one
   of its segments succeeding, to the call being cancelled, or to its
   DocumentResult with no triplets and num_segments = N; and the current
   worker stays alive until stop is set. *)
YieldedEmpty(c, p) ==
    \E j \in 1..Len(yielded[c]) :
        /\ yielded[c][j].doc_id = DocId(c, p)
        /\ yielded[c][j].triplets = <<>>
        /\ yielded[c][j].num_segments = stream[c][p].nseg

SucceededFor(d) ==
    \E k \in 1..Len(output_queue) : output_queue[k].doc_id = d /\ output_queue[k].ok

WorkerKeptAlive == (processing_thread # 0 /\ ~stop_event) => Alive(processing_thread)

C3_Resilience ==
    /\ []WorkerKeptAlive
    /\ \A c \in Calls : \A p \in 1..MaxDocs :
          (Submitting(c) /\ pos[c] = p /\ doc_results[c] = <<>> /\ ~SucceededFor(DocId(c, p)))
              ~> (YieldedEmpty(c, p) \/ SucceededFor(DocId(c, p)) \/ exc[c] = "cancel")

(* A document of MaxSeg segments, all failed, was yielded with no triplets. *)
C3_Witness ==
    \E c \in Calls : \E p \in NonEmptyDocs(c) :
        /\ stream[c][p].nseg = MaxSeg
        /\ YieldedEmpty(c, p)
        /\ Alive(processing_thread)

(* C4: every WorkItem the worker has dequeued has a SegmentResult with its
   doc_id on the output queue or is still waiting in the worker's batch; a
   failed inference gives an empty triplet list; the worker never ends with
   items of its batch unprocessed. *)
C4_NoDroppedWork ==
    /\ \A d \in DocIds : produced[d] + Pending(d) >= dequeued[d]
    /\ \A k \in 1..Len(output_queue) :
          ~output_queue[k].ok => output_queue[k].triplets = <<>>
    /\ \A t \in Calls : worker[t].pc = "done" => worker[t].batch = <<>>

(* The result of a failed inference is on the output queue. *)
C4_Witness ==
    \E k \in 1..Len(output_queue) :
        /\ ~output_queue[k].ok
        /\ dequeued[output_queue[k].doc_id] >= 1

(* C5: a result that a correlator dequeues for a document in flight other
   than its own is never discarded. *)
C5_Buffered == lost = {}

(* C6: when the worker has terminated and the join of process_stream is
   about to return, the input queue is empty and every WorkItem that was
   enqueued has produced a SegmentResult. *)
C6_GracefulStop ==
    \A c \in Calls : (pc[c] = "join" /\ ~Alive(processing_thread)) =>
        /\ input_queue = <<>>
        /\ \A d \in DocIds : produced[d] = enqueued[d]

(* C7: at most one worker thread is alive at any time. *)
C7_SingleWorker == Cardinality({t \in Calls : Alive(t)}) <= 1

(* A call was started while another call's worker was alive, and spawned none. *)
C7_Witness ==
    \E c \in Calls : \E d \in Calls \ {c} :
        /\ Alive(c)
        /\ pc[d] \notin {"idle", "done"}
        /\ worker[d].pc = "unstarted"

(* C8: the input queue never holds more than queue_size items; a put on the
   full queue is not enabled; the segments of the document being submitted
   have been enqueued once each, in segment order, all of them once the
   correlation loop runs. *)
C8_Backpressure ==
    /\ Len(input_queue) <= QueueSize
    /\ \A c \in Calls :
          /\ (pc[c] = "put" /\ Len(input_queue) >= QueueSize) => ~ENABLED Put(c)
          /\ Submitting(c) =>
                /\ put_log[c] = [i \in 1..nput[c] |-> i]
                /\ enqueued[CurId(c)] = nput[c]
                /\ pc[c] \in {"corr", "sleep"} => nput[c] = Doc(c).nseg

(* A submission is blocked on the full queue in the middle of a document. *)
C8_Witness ==
    \E c \in Calls :
        /\ pc[c] = "put"
        /\ running = c
        /\ nput[c] >= 1
        /\ nput[c] < Doc(c).nseg
        /\ Len(input_queue) = QueueSize

(***************************************************************************)
(* Properties of the parser.                                               *)
(***************************************************************************)
FieldsNonEmpty(t) ==
    /\ t.head # <<>>
    /\ t.head_type # <<>>
    /\ t.type # <<>>
    /\ t.tail # <<>>
    /\ t.tail_type # <<>>

(* C9: every triplet the parser has appended, and every triplet it returns,
   has non-empty head, head_type, type, tail and tail_type. *)
C9_FieldCompleteness ==
    /\ \A i \in 1..Len(parse.triplets) : FieldsNonEmpty(parse.triplets[i])
    /\ \A i \in 1..Len(presult) : FieldsNonEmpty(presult[i])

(* A parse that returned a triplet and left out an incomplete candidate at
   the triplet-start marker, at a bracketed marker and at the end. *)
C9_Witness ==
    /\ ppc = "done"
    /\ presult # <<>>
    /\ pdropped = {"marker", "bracket", "end"}

(* C10 as the spec states it: the example text gives one triplet with
   relation "headquartered in" and tail "Cupertino". *)
C10_SpecExample ==
    (ppc = "done" /\ ptext = ExampleText) =>
        presult = <<[head |-> Str_Apple, head_type |-> Str_org,
                     type |-> Str_headquartered_in, tail |-> Str_Cupertino,
                     tail_type |-> Str_loc]>>

(* C10, amended: the example text gives exactly one triplet, with head
   "Apple", head_type "org", tail "headquartered in", tail_type "loc" and
   relation "Cupertino". *)
C10_ParserExample ==
    (ppc = "done" /\ ptext = ExampleText) =>
        presult = <<[head |-> Str_Apple, head_type |-> Str_org,
                     type |-> Str_Cupertino, tail |-> Str_headquartered_in,
                     tail_type |-> Str_loc]>>

(* The example text has been parsed. *)
C10_Witness ==
    /\ ppc = "done"
    /\ ptext = ExampleText
    /\ Len(presult) = 1

(***************************************************************************)
(* Properties of the segmenter.                                            *)
(***************************************************************************)
RECURSIVE WordsOf(_)
WordsOf(segs) == IF segs = <<>> THEN <<>> ELSE split(Head(segs)) \o WordsOf(Tail(segs))

TextWords == [i \in 1..Len(wtokens) |-> WordText(i)]

IsPrefix(a, b) == Len(a) <= Len(b) /\ a = SubSeq(b, 1, Len(a))

OneLongWord(seg) == Len(split(seg)) = 1 /\ get_token_length(seg) > SafeLength

(* C12: every segment, at any point of segment_document and in what it
   returns, has a token length of at most safe_length, unless it consists of
   exactly one word whose token length exceeds safe_length. *)
C12_SegmentBudget ==
    \A k \in 1..Len(segments) :
        get_token_length(segments[k]) <= SafeLength \/ OneLongWord(segments[k])

(* A returned segmentation with a segment of one over-long word and a
   segment of several words within the budget. *)
C12_Witness ==
    /\ spc = "done"
    /\ \E k \in 1..Len(segments) : OneLongWord(segments[k])
    /\ \E k \in 1..Len(segments) :
          Len(split(segments[k])) >= 2 /\ get_token_length(segments[k]) = SafeLength

(* C13: the words of the segments, in segment order, are always a prefix of
   the words of the text, and are exactly the words of the text when
   segment_document returns. *)
C13_SegmentCoverage ==
    /\ IsPrefix(WordsOf(segments), TextWords)
    /\ spc = "done" => WordsOf(segments) = TextWords

(* A returned segmentation of several segments in which a sentence was
   split into words and another was not. *)
C13_Witness ==
    /\ spc = "done"
    /\ Len(segments) >= 3
    /\ Len(sentences) >= 2
    /\ \E k \in 1..Len(sentences) : get_token_length(sentences[k]) > SafeLength
    /\ \E k \in 1..Len(sentences) :
          Len(split(sentences[k])) >= 2 /\ get_token_length(sentences[k]) <= SafeLength

(* C14: segment_document returns no segment for a text without sentences,
   and exactly the one segment ' '.join(sentences) when the token lengths of
   the sentences sum to at most safe_length. *)
C14_SegmenterEdges ==
    spc = "done" =>
        /\ sentences = <<>> => segments = <<>>
        /\ (sentences # <<>> /\ get_token_length(join(sentences)) <= SafeLength)
              => segments = <<join(sentences)>>

(* Several sentences within the budget were returned as one segment. *)
C14_Witness ==
    /\ spc = "done"
    /\ Len(sentences) >= 2
    /\ get_token_length(join(sentences)) <= SafeLength
    /\ Len(segments) = 1

(***************************************************************************)
(* More properties of the parser.                                          *)
(***************************************************************************)
TripletKeys == {"head", "head_type", "type", "tail", "tail_type"}

(* C11: extract_triplets_typed returns only when no token of its text is
   left to visit (no token ends the scan early); what it returns is a list
   of triplets, empty for the empty string, and for any other text the
   triplets flushed during the scan followed by at most the one of the
   final flush. *)
C11_ParserTotality ==
    ppc = "done" =>
        /\ ptext = <<>> => presult = <<>>
        /\ ptokens = <<>>
        /\ \A i \in 1..Len(presult) : DOMAIN presult[i] = TripletKeys
        /\ IsPrefix(parse.triplets, presult)
        /\ Len(presult) <= Len(parse.triplets) + 1

(* A stream without a triplet-start marker was parsed: candidates were left
   out at a bracketed marker and at the end, and nothing was returned. *)
C11_Witness ==
    /\ ppc = "done"
    /\ ptext # <<>>
    /\ presult = <<>>
    /\ pdropped = {"bracket", "end"}

(***************************************************************************)
(* More properties of the pipeline.                                        *)
(***************************************************************************)
EmptyDocs(c) == {p \in 1..Len(stream[c]) : stream[c][p].text = "empty"}

(* C15: for a document whose text is empty after strip(), no WorkItem is
   ever enqueued and no DocumentResult is yielded; having taken it,
   process_stream is at the head of its loop for the next document, or has
   reached the end of the stream, with no exception raised. *)
C15_EmptySkipped ==
    \A c \in Calls : \A p \in EmptyDocs(c) :
        /\ enqueued[DocId(c, p)] = 0
        /\ \A j \in 1..Len(yielded[c]) : yielded[c][j].doc_id # DocId(c, p)
        /\ pos[c] = p =>
              /\ exc[c] = "none"
              /\ \/ pc[c] = "next"
                 \/ p = Len(stream[c]) /\ pc[c] \in {"join", "done"}

(* The document that follows an empty one was yielded. *)
C15_Witness ==
    \E c \in Calls : \E p \in EmptyDocs(c) :
        \E j \in 1..Len(yielded[c]) : yielded[c][j].doc_id = DocId(c, p + 1)

(* C16: a document whose text is None is skipped: no exception leaves
   process_stream because of it. *)
C16_InvalidSkipped == \A c \in Calls : exc[c] # "error"

Started == {t \in Calls : worker[t].pc # "unstarted"}

Submitted == {c \in Calls : \E p \in 1..MaxDocs : enqueued[DocId(c, p)] > 0}

(* C17: with one call at a time, the call that follows a call that has
   stopped the pipeline starts no worker and enqueues no work: over all the
   calls at most one worker is ever started, and at most one call enqueues. *)
C17_TerminalStopped ==
    /\ Cardinality(Started) <= 1
    /\ Cardinality(Submitted) <= 1

(* C18: with one call at a time, a call over an empty document stream leads
   to the call having returned with nothing yielded and its worker
   terminated; and whenever stop has been signalled with the input queue
   empty, the join returns. *)
C18_StopNoWork ==
    /\ \A c \in Calls :
          (pc[c] = "next" /\ stream[c] = <<>>)
              ~> (pc[c] = "done" /\ yielded[c] = <<>> /\ ~Alive(processing_thread))
    /\ \A c \in Calls : (pc[c] = "join" /\ input_queue = <<>>) ~> (pc[c] = "done")

(* A call over an empty stream has returned; the worker it started has exited. *)
C18_Witness ==
    \E c \in Calls :
        /\ pc[c] = "done"
        /\ stream[c] = <<>>
        /\ yielded[c] = <<>>
        /\ worker[c].pc = "done"

NonDecreasing(ts) ==
    \A a \in 1..Len(ts) : \A b \in 1..Len(ts) : a < b => ts[a].seg <= ts[b].seg

(* C19: in every DocumentResult, and in doc_results while it is built, the
   triplets are those of the document's own segments in the order in which
   the segments were submitted. *)
C19_TripletOrder ==
    \A c \in Calls :
        /\ \A j \in 1..Len(yielded[c]) :
              /\ NonDecreasing(yielded[c][j].triplets)
              /\ \A a \in 1..Len(yielded[c][j].triplets) :
                    yielded[c][j].triplets[a].doc_id = yielded[c][j].doc_id
        /\ NonDecreasing(doc_results[c])

(* A DocumentResult with the triplets of several segments. *)
C19_Witness ==
    \E c \in Calls : \E j \in 1..Len(yielded[c]) :
        /\ Len(yielded[c][j].triplets) >= 2
        /\ yielded[c][j].num_segments = Len(yielded[c][j].triplets)

(* C20: process_segment raises when the inference call fails: the worker
   never gets a return value of process_segment for a failed inference, so
   no SegmentResult built from one (lines 108-112) is on the output queue. *)
C20_RaisesOnFailure ==
    \A k \in 1..Len(output_queue) : output_queue[k].ok

(* C21: for every doc_id the SegmentResults the worker has put never
   outnumber the WorkItems of that doc_id it has dequeued, the items of its
   batch that it has not yet processed left out: no item has two results,
   also once the processing of an item of the batch has failed. *)
C21_NoDuplicates ==
    \A d \in DocIds :
        /\ produced[d] <= dequeued[d]
        /\ produced[d] + Pending(d) <= dequeued[d]

(* The worker is part-way through a batch of one document: an item of the
   batch has failed, its empty result is on the output queue, and another
   item is still to be processed. *)
C21_Witness ==
    \E t \in Calls :
        /\ worker[t].pc = "proc"
        /\ worker[t].i >= 1
        /\ worker[t].batch[2].doc_id = worker[t].batch[1].doc_id
        /\ \E k \in 1..Len(output_queue) :
              /\ ~output_queue[k].ok
              /\ output_queue[k].doc_id = worker[t].batch[1].doc_id

(***************************************************************************)
(* Progress of the pipeline.                                               *)
(***************************************************************************)
Completed(c, p) ==
    /\ \E j \in 1..Len(yielded[c]) :
          /\ yielded[c][j].doc_id = DocId(c, p)
          /\ yielded[c][j].num_segments = stream[c][p].nseg
    /\ enqueued[DocId(c, p)] = stream[c][p].nseg
    /\ produced[DocId(c, p)] = stream[c][p].nseg

BlockedOnPut(c) == pc[c] = "put" /\ running = c /\ ~CanPut

(* C25: with one call at a time and the worker scheduled fairly, a document
   of more segments than queue_size that is being submitted leads to its
   DocumentResult, all its segments enqueued and processed, unless the call
   is cancelled; and whenever the submission is blocked on the full input
   queue, the worker thread is alive to drain it. *)
C25_NoDeadlock ==
    /\ \A c \in Calls : \A p \in 1..MaxDocs :
          (pc[c] = "put" /\ pos[c] = p /\ Doc(c).nseg > QueueSize)
              ~> (Completed(c, p) \/ exc[c] = "cancel")
    /\ [](\A c \in Calls : BlockedOnPut(c) => Alive(processing_thread))

(* A document of more segments than queue_size has been yielded: its
   submission had to wait for the worker to drain the input queue. *)
C25_Witness ==
    \E c \in Calls : \E p \in NonEmptyDocs(c) :
        /\ stream[c][p].nseg > QueueSize
        /\ Completed(c, p)

(* C26: with overlapping calls, every WorkItem that a call has enqueued for
   the document it is submitting is eventually processed (its SegmentResult
   is put on the output queue), unless that call itself ends first: the end
   of another call, which sets the stop event and joins the worker, strands
   none of it.  The completion of the call's documents presupposes this. *)
C26_StopDoesNotStrand ==
    \A c \in Calls : \A p \in 1..MaxDocs : \A n \in 1..MaxSeg :
        (Submitting(c) /\ pos[c] = p /\ enqueued[DocId(c, p)] >= n)
            ~> (produced[DocId(c, p)] >= n \/ pc[c] \in {"join", "done"})

YieldedDoc(c, p) == \E j \in 1..Len(yielded[c]) : yielded[c][j].doc_id = DocId(c, p)

(* C27: within one call, a segment of a document is enqueued only when the
   DocumentResult of every earlier non-empty document of the stream has
   been yielded, and the DocumentResults are yielded in the order of the
   documents in the stream. *)
C27_OneInFlight ==
    \A c \in Calls :
        /\ \A p \in 1..Len(stream[c]) :
              enqueued[DocId(c, p)] > 0 =>
                  \A q \in NonEmptyDocs(c) : q < p => YieldedDoc(c, q)
        /\ \A i \in 1..Len(yielded[c]) : \A j \in 1..Len(yielded[c]) :
              i < j => yielded[c][i].doc_id < yielded[c][j].doc_id

(* The second document of a stream is being submitted after the first was
   yielded. *)
C27_Witness ==
    \E c \in Calls :
        /\ pos[c] = 2
        /\ enqueued[DocId(c, 2)] > 0
        /\ YieldedDoc(c, 1)

(***************************************************************************)
(* The segmenter's word-level fallback.                                    *)
(***************************************************************************)
OverBudget(text) == get_token_length(text) > SafeLength

(* seg is ' '.join of consecutive sentences, none of them over the budget. *)
WholeSentences(seg) ==
    \E a \in 1..Len(sentences) : \E b \in a..Len(sentences) :
        /\ seg = JoinWords(SubSeq(sentences, a, b))
        /\ \A k \in a..b : ~OverBudget(sentences[k])

(* seg is made of consecutive words of one sentence that is over the budget. *)
WordsOfOne(seg) ==
    \E k \in 1..Len(sentences) :
        /\ OverBudget(sentences[k])
        /\ \E i \in 1..Len(split(sentences[k])) : \E j \in i..Len(split(sentences[k])) :
              split(seg) = SubSeq(split(sentences[k]), i, j)

(* C28: while the words of a sentence over the budget are being packed, no
   sentence-level segment is pending (it was flushed before the first word);
   the word-level segment is flushed before the next sentence is visited;
   and every segment is either whole sentences, none over the budget, or
   words of a single sentence over the budget. *)
C28_FallbackIsolation ==
    /\ spc = "word" => (current_segment = <<>> /\ current_length = 0)
    /\ (spc \in {"sent", "done"} /\ si > 0 /\ OverBudget(sentences[si])) =>
          (temp_segment # <<>> /\ segments[Len(segments)] = JoinWords(temp_segment))
    /\ \A k \in 1..Len(segments) :
          WholeSentences(segments[k]) \/ WordsOfOne(segments[k])

(* A returned segmentation in which a segment of two sentences is followed
   by a word-level segment of a sentence over the budget. *)
C28_Witness ==
    /\ spc = "done"
    /\ \E k \in 1..(Len(segments) - 1) :
          /\ WholeSentences(segments[k])
          /\ Len(split(segments[k])) >= 2
          /\ WordsOfOne(segments[k + 1])

(* C29: process_segment returns [] without a call of the model for every
   segment whose token length exceeds safe_length, so a segment of one
   over-long word, as the segmenter emits it, contributes no triplets; and
   it still gets its one result: there is one result for each segment
   processed. *)
C29_OverBudgetGuard ==
    /\ Len(sresults) <= Len(segments)
    /\ \A k \in 1..Len(sresults) :
          /\ OverBudget(segments[k]) =>
                (sresults[k].triplets = <<>> /\ ~sresults[k].invoked)
          /\ OneLongWord(segments[k]) => sresults[k].triplets = <<>>

(* Every segment of a document has its result: a segment of one over-long
   word was answered with [] and no call of the model, and a segment within
   the budget gave a triplet. *)
C29_Witness ==
    /\ spc = "done"
    /\ Len(sresults) = Len(segments)
    /\ \E k \in 1..Len(sresults) : OneLongWord(segments[k]) /\ ~sresults[k].invoked
    /\ \E k \in 1..Len(sresults) : sresults[k].invoked /\ sresults[k].triplets # <<>>

(***************************************************************************)
(* The parser's states and flushes.                                        *)
(***************************************************************************)
(* C22: the triplets the parser has appended, and those it returns, are
   never more than the times it has entered the relation state (current set
   to 'o'): the relation text of one stay is emitted in at most one triplet. *)
C22_OnePerRelation ==
    /\ Len(parse.triplets) <= pentered
    /\ ppc = "done" => Len(presult) <= pentered

Extended(acc, token) == acc \o <<" ">> \o token

(* C23: every step of the scan follows the transition table: a
   triplet-start marker leads to the subject state 't' from any state; a
   bracketed marker leads from 't' or 'o' to the object-type state 's', with
   subject_type its inner text and the tail accumulator object_ cleared, and
   from 'x' or 's' to the relation state 'o', with object_type its inner
   text and the relation accumulator cleared; any other token leaves the
   state and the triplets as they are and extends the one accumulator of the
   current state (subject in 't', object_ in 's', relation in 'o'), and
   changes nothing in the start state 'x'. *)
C23_Transitions ==
    [][(ppc = "scan" /\ ptokens # <<>>) =>
         LET token == Head(ptokens) IN
         IF IsTripletMarker(token)
            THEN parse'.current = "t"
         ELSE IF IsBracketed(token)
            THEN IF parse.current \in {"t", "o"}
                    THEN /\ parse'.current = "s"
                         /\ parse'.subject_type = Inner(token)
                         /\ parse'.object_ = <<>>
                    ELSE /\ parse.current \in {"x", "s"}
                         /\ parse'.current = "o"
                         /\ parse'.object_type = Inner(token)
                         /\ parse'.relation = <<>>
         ELSE IF parse.current = "t"
            THEN parse' = [parse EXCEPT !.subject = Extended(@, token)]
         ELSE IF parse.current = "s"
            THEN parse' = [parse EXCEPT !.object_ = Extended(@, token)]
         ELSE IF parse.current = "o"
            THEN parse' = [parse EXCEPT !.relation = Extended(@, token)]
         ELSE parse.current = "x" /\ parse' = parse]_vars

(* The scan is in the relation state for the second time, entered once from
   the start state and once from the object-type state, and every
   accumulator has taken a token. *)
C23_Witness ==
    /\ ppc = "scan"
    /\ parse.current = "o"
    /\ pentered >= 2
    /\ AllAccumulated(parse)

(* C24: a bracketed marker that arrives in the relation state 'o' with a
   complete triplet pending appends that triplet and keeps the head text
   subject; and the text "<triplet> H <a> T1 <b> R1 <c> T2 <d> R2" returns
   exactly two triplets, in this order: (H, a, R1, T1, b) and
   (H, c, R2, T2, d) as (head, head_type, type, tail, tail_type). *)
C24_SharedHead ==
    /\ [][(/\ ppc = "scan"
           /\ ptokens # <<>>
           /\ ~IsTripletMarker(Head(ptokens))
           /\ IsBracketed(Head(ptokens))
           /\ parse.current = "o"
           /\ parse.relation # <<>>
           /\ FieldsNonEmpty(TripletOf(parse)))
            => /\ parse'.triplets = Append(parse.triplets, TripletOf(parse))
               /\ parse'.subject = parse.subject]_vars
    /\ []((ppc = "done" /\ ptext = SharedHeadText) =>
            presult = << [head |-> <<"H">>, head_type |-> <<"a">>, type |-> <<"R", "1">>,
                          tail |-> <<"T", "1">>, tail_type |-> <<"b">>],
                         [head |-> <<"H">>, head_type |-> <<"c">>, type |-> <<"R", "2">>,
                          tail |-> <<"T", "2">>, tail_type |-> <<"d">>] >>)

(* The text of two triplets of one head has been parsed. *)
C24_Witness ==
    /\ ppc = "done"
    /\ ptext = SharedHeadText
    /\ Len(presult) = 2
    /\ presult[1].head = presult[2].head

(* C30: when extract_triplets_typed has visited all its tokens and none was
   a triplet-start marker (a token the test of line 216 accepts), it
   returns the empty list, whatever bracketed markers and plain tokens the
   text has: no head text was accumulated and no triplet appended. *)
C30_NoMarkerNoTriplet ==
    (ppc = "done" /\ pmarkers = 0) =>
        /\ presult = <<>>
        /\ parse.triplets = <<>>
        /\ parse.subject = <<>>

(* A text of bracketed markers and plain tokens without a triplet-start
   marker has been parsed: the relation state was entered twice, relation
   text was pending at a bracketed marker and at the end, and nothing was
   returned. *)
C30_Witness ==
    /\ ppc = "done"
    /\ pmarkers = 0
    /\ pentered >= 2
    /\ pdropped = {"bracket", "end"}
    /\ parse.relation # <<>>
    /\ presult = <<>>

(***************************************************************************)
(* The parser and the sentinel tokens.                                     *)
(***************************************************************************)
(* One iteration of the for loop of lines 215-255. *)
StepToken(p, token) ==
    IF IsTripletMarker(token) THEN OnTripletMarker(p)
    ELSE IF IsBracketed(token) THEN OnBracket(p, token)
    ELSE OnOther(p, token)

RECURSIVE Scan(_, _)
Scan(tokens, p) ==
    IF tokens = <<>> THEN p ELSE Scan(Tail(tokens), StepToken(p, Head(tokens)))

(* extract_triplets_typed as a function of its text. *)
extract_triplets_typed(text) ==
    IF text = <<>> THEN <<>> ELSE Finish(Scan(Tokenize(strip(text)), ParseStart))

IsSentinel(word) == word \in Sentinels

NotSentinel(word) == ~IsSentinel(word)

(* The text with every word that is a sentinel token taken out. *)
WithoutSentinels(text) == JoinWords(SelectSeq(split(text), NotSentinel))

(* C31: what extract_triplets_typed returns for a text is what it returns
   for the same text without the words that are sentinel tokens (<s>,
   <pad>, </s>, tp_XX, __en__): inserting them as words of their own, at any
   positions, changes nothing in the returned list. *)
C31_SentinelInsensitive ==
    ppc = "done" => presult = extract_triplets_typed(WithoutSentinels(ptext))

(* A text with MaxSentinels sentinel tokens of different kinds among its
   words has been parsed and triplets were returned. *)
C31_Witness ==
    /\ ppc = "done"
    /\ presult # <<>>
    /\ Len(SelectSeq(split(ptext), IsSentinel)) = MaxSentinels
    /\ \E i \in 1..Len(split(ptext)) : \E j \in 1..Len(split(ptext)) :
          /\ IsSentinel(split(ptext)[i])
          /\ IsSentinel(split(ptext)[j])
          /\ split(ptext)[i] # split(ptext)[j]

(***************************************************************************)
(* The worker's batches.                                                   *)
(***************************************************************************)
InQueue(d) == Cardinality({k \in 1..Len(input_queue) : input_queue[k].doc_id = d})

BatchShape ==
    /\ \A t \in Calls :
          /\ Len(worker[t].batch) <= BatchSize
          /\ worker[t].pc = "proc" =>
                (Len(worker[t].batch) >= 1 /\ worker[t].i < Len(worker[t].batch))
          /\ worker[t].pc = "fill" => ENABLED WFill(t)
    /\ \A d \in DocIds :
          /\ enqueued[d] = dequeued[d] + InQueue(d)
          /\ dequeued[d] = produced[d] + Pending(d)

BatchOrder ==
    /\ \/ input_queue' = input_queue
       \/ \E c \in Calls : input_queue' = Append(input_queue, [doc_id |-> CurId(c), seg |-> NextSegment(c)])
       \/ /\ input_queue # <<>>
          /\ input_queue' = Tail(input_queue)
          /\ \E t \in Calls : worker'[t].batch = Append(worker[t].batch, Head(input_queue))
    /\ \A t \in Calls :
          \/ worker'[t].batch = worker[t].batch
          \/ worker'[t].batch = <<>>
          \/ /\ input_queue # <<>>
             /\ worker'[t].batch = Append(worker[t].batch, Head(input_queue))
             /\ input_queue' = Tail(input_queue)
    /\ \A d \in DocIds : produced'[d] # produced[d] =>
          \E t \in Calls :
             /\ worker[t].pc = "proc"
             /\ worker[t].batch[worker[t].i + 1].doc_id = d
             /\ produced'[d] = produced[d] + 1
             /\ Len(output_queue') >= 1
             /\ output_queue'[Len(output_queue')].doc_id = d
             /\ \/ worker'[t].i = worker[t].i + 1
                \/ worker[t].i + 1 = Len(worker[t].batch) /\ worker'[t].batch = <<>>

(* C32: a batch never holds more than batch_size WorkItems, and at least
   one when it is processed; the worker takes items only from the head of
   the input queue, one at a time, appending them to the batch, and the
   inner loop ends instead of waiting when the queue is empty; every item
   enqueued is in the queue or was dequeued once, and every item dequeued
   is waiting in the batch or has its one result; the results are put at
   the tail of the output queue, for the items of the batch in the order
   in which they were dequeued. *)
C32_BatchBound == []BatchShape /\ [][BatchOrder]_vars

(* The worker is processing a batch of batch_size items while a further
   WorkItem waits on the input queue. *)
C32_Witness ==
    \E t \in Calls :
        /\ worker[t].pc = "proc"
        /\ Len(worker[t].batch) = BatchSize
        /\ worker[t].i >= 1
        /\ input_queue # <<>>

====
